---------------------------- MODULE Spec2Model ----------------------------
(***************************************************************************)
(* Model of the bowling scoring engine of src/scoring.py: one player's     *)
(* BowlingGame (ten frames, a frame cursor and a completion flag), the     *)
(* add_roll state machine and the scoring queries computed from the frames,*)
(* and the GameManager that routes rolls to the players of a match; and of *)
(* the scoring screen of src/ui/scoring_screen.py and src/main.py that     *)
(* drives a GameManager from pin buttons and timers and saves the scores.  *)
(***************************************************************************)
EXTENDS Integers, Sequences, FiniteSets, TLC

VARIABLES
    game,     \* the BowlingGame: [frames, current_frame, is_complete]
    arg,      \* the pins argument of the last add_roll call
    raised,   \* TRUE iff the last add_roll call raised ValueError
    result,   \* the dictionary returned by the last add_roll call
    players,  \* GameManager.players: the list of BowlingGames of the match
    current_player_index,   \* GameManager.current_player_index
    outcome,  \* what the last GameManager call did: how it ended, its
              \* argument and the dictionary it returned
    view,     \* BowlingTrackerApp.stacked_widget's current index
    frame_counter_frozen,   \* ScoringScreen.frame_counter_frozen
    pin_buttons,            \* the highest enabled pin button, -1 if none is
    player_id_to_consecutive_strikes,   \* ScoringScreen's strike counters
    timers,   \* the QTimer.singleShot callbacks that have not fired yet
    db_last_game_id,        \* the row id of the last Game row of the database
    db_calls, \* the update_game_score and add_frame calls made so far
    game_results            \* GameOverScreen.game_results

gameVars == <<game, arg, raised, result>>

matchVars == <<players, current_player_index, outcome>>

screenVars == <<view, frame_counter_frozen, pin_buttons,
                player_id_to_consecutive_strikes, timers, db_last_game_id,
                db_calls, game_results>>

vars == <<game, arg, raised, result, players, current_player_index, outcome,
          view, frame_counter_frozen, pin_buttons,
          player_id_to_consecutive_strikes, timers, db_last_game_id,
          db_calls, game_results>>

-----------------------------------------------------------------------------
(* Program constants and the representation of Python values.              *)

\* range(10): the ten frames, indices 0..9
NumFrames == 10

FrameIdx == 0 .. (NumFrames - 1)

\* Python's None in an Optional[int] score; every real score is >= 0
None == -1

\* Bound: how many rolls of a game, after its leading run of strikes, are
\* drawn from all of PinValues; the rolls after them are gutter balls.
MaxFreeRolls == 4

\* The pin counts a caller submits: legal ones ...
PinValues == {0, 3, 7, 10}

\* ... and the two nearest illegal ones
BadPins == {-1, 11}

\* The pin count submitted once the free rolls are used up
FillerPins == {0}

\* Bound: the largest number of players a match is given
MaxPlayers == 3

\* The legal pin counts submitted in a match; a player repeats the pin
\* count of their first roll on every later roll
MatchPinValues == {0, 5, 10}

\* Bound: the largest number of players selected for a match on the
\* scoring screen (the selection dialog asks for at least 2)
MaxScreenPlayers == 2

\* Bound: the largest number of Game rows create_game is asked for
MaxGames == 4

\* Bound: the largest player list _advance_to_next_player is tried on
MaxAdvancePlayers == 4

-----------------------------------------------------------------------------
(* Helpers on sequences.                                                   *)

RECURSIVE Sum(_)
\* Python's sum() of a list of ints
Sum(s) == IF s = <<>> THEN 0 ELSE Head(s) + Sum(Tail(s))

RECURSIVE RollsFrom(_, _)
\* All rolls of frames idx..9 of a frame list, in frame order
RollsFrom(frames, idx) ==
    IF idx >= NumFrames THEN <<>>
    ELSE frames[idx] \o RollsFrom(frames, idx + 1)

RECURSIVE LeadingStrikes(_)
\* Length of the longest prefix of a roll sequence made of 10s only
LeadingStrikes(s) ==
    IF s = <<>> \/ Head(s) # 10 THEN 0 ELSE 1 + LeadingStrikes(Tail(s))

-----------------------------------------------------------------------------
(* BowlingGame.__init__ and BowlingGame.add_roll                           *)

\* BowlingGame.__init__: ten empty frames, cursor 0, not complete
NewGame ==
    [frames |-> [i \in FrameIdx |-> <<>>],
     current_frame |-> 0,
     is_complete |-> FALSE]

\* The result dictionary add_roll starts from
NewResult ==
    [is_strike |-> FALSE, is_spare |-> FALSE,
     frame_complete |-> FALSE, game_complete |-> FALSE]

\* add_roll's guards with the upper bound of the range check left out
RollRaises_NoUpperBound(g, pins) ==
    IF g.is_complete THEN TRUE
    ELSE IF pins < 0 THEN TRUE
    ELSE FALSE

\* add_roll's guards without the check that the game is already complete
RollRaises_NoCompleteCheck(g, pins) ==
    IF pins < 0 \/ pins > 10 THEN TRUE
    ELSE FALSE

\* The two guards at the top of add_roll that raise ValueError
RollRaises(g, pins) ==
    IF g.is_complete THEN TRUE
    ELSE IF pins < 0 \/ pins > 10 THEN TRUE
    ELSE FALSE

\* self.frames[self.current_frame].append(pins)
AppendRoll(g, pins) ==
    [g EXCEPT !.frames[g.current_frame] = Append(@, pins)]

\* The branch for frames 1-9 leaving the cursor on the frame after a strike
ClassifyRegular_StrikeStays(g, pins, res) ==
    IF pins = 10
    THEN [game   |-> g,
          result |-> [res EXCEPT !.is_strike = TRUE, !.frame_complete = TRUE]]
    ELSE IF Len(g.frames[g.current_frame]) = 2
    THEN [game   |-> [g EXCEPT !.current_frame = @ + 1],
          result |-> [res EXCEPT
                        !.is_spare = (Sum(g.frames[g.current_frame]) = 10),
                        !.frame_complete = TRUE]]
    ELSE [game |-> g, result |-> res]

\* The branch for frames 1-9 (current_frame < 9), run after the append
ClassifyRegular(g, pins, res) ==
    IF pins = 10
    THEN [game   |-> [g EXCEPT !.current_frame = @ + 1],
          result |-> [res EXCEPT !.is_strike = TRUE, !.frame_complete = TRUE]]
    ELSE IF Len(g.frames[g.current_frame]) = 2
    THEN [game   |-> [g EXCEPT !.current_frame = @ + 1],
          result |-> [res EXCEPT
                        !.is_spare = (Sum(g.frames[g.current_frame]) = 10),
                        !.frame_complete = TRUE]]
    ELSE [game |-> g, result |-> res]

\* The 10th-frame branch ending the game at the second roll whatever it is
ClassifyTenth_NoBonus(g, pins, res) ==
    LET frame_10 == g.frames[9] IN
    IF Len(frame_10) = 1 /\ pins = 10
    THEN [game |-> g, result |-> [res EXCEPT !.is_strike = TRUE]]
    ELSE IF Len(frame_10) >= 2
    THEN [game   |-> [g EXCEPT !.is_complete = TRUE],
          result |-> [res EXCEPT !.is_spare = (Sum(frame_10) = 10),
                                 !.frame_complete = TRUE,
                                 !.game_complete = TRUE]]
    ELSE [game |-> g, result |-> res]

\* The branch for the 10th frame (index 9), run after the append
ClassifyTenth(g, pins, res) ==
    LET frame_10 == g.frames[9] IN
    IF Len(frame_10) = 1 /\ pins = 10
    THEN [game |-> g, result |-> [res EXCEPT !.is_strike = TRUE]]
    ELSE IF Len(frame_10) = 2
    THEN LET res1 == [res EXCEPT !.is_spare = (Sum(frame_10) = 10)] IN
         IF frame_10[1] < 10 /\ Sum(frame_10) < 10
         THEN [game   |-> [g EXCEPT !.is_complete = TRUE],
               result |-> [res1 EXCEPT !.frame_complete = TRUE,
                                       !.game_complete = TRUE]]
         ELSE [game |-> g, result |-> res1]
    ELSE IF Len(frame_10) = 3
    THEN [game   |-> [g EXCEPT !.is_complete = TRUE],
          result |-> [res EXCEPT !.frame_complete = TRUE,
                                 !.game_complete = TRUE]]
    ELSE [game |-> g, result |-> res]

\* The closing check of add_roll: if self.current_frame >= 10
EndOfGameCheck(gr) ==
    IF gr.game.current_frame >= 10
    THEN [game   |-> [gr.game EXCEPT !.is_complete = TRUE],
          result |-> [gr.result EXCEPT !.game_complete = TRUE]]
    ELSE gr

\* BowlingGame.add_roll: the game after the call, whether it raised, and
\* the returned dictionary (NewResult stands for "nothing returned")
add_roll(g, pins) ==
    IF RollRaises(g, pins)
    THEN [game |-> g, raised |-> TRUE, result |-> NewResult]
    ELSE LET g1 == AppendRoll(g, pins)
             gr == IF g.current_frame < 9
                   THEN ClassifyRegular(g1, pins, NewResult)
                   ELSE ClassifyTenth(g1, pins, NewResult)
             fin == EndOfGameCheck(gr)
         IN [game |-> fin.game, raised |-> FALSE, result |-> fin.result]

-----------------------------------------------------------------------------
(* The scoring queries of BowlingGame.                                     *)

RECURSIVE TakeRolls(_, _, _)
\* The inner for loop of _get_next_n_rolls: append the rolls of one frame
\* to rolls, leaving the loop as soon as n rolls are gathered
TakeRolls(rolls, frame, n) ==
    IF frame = <<>> THEN rolls
    ELSE LET rolls1 == Append(rolls, Head(frame)) IN
         IF Len(rolls1) >= n THEN rolls1
         ELSE TakeRolls(rolls1, Tail(frame), n)

RECURSIVE NextRollsLoop(_, _, _, _)
\* The while loop of _get_next_n_rolls
NextRollsLoop(frames, current_idx, n, rolls) ==
    IF Len(rolls) < n /\ current_idx < 10
    THEN NextRollsLoop(frames, current_idx + 1, n,
                       TakeRolls(rolls, frames[current_idx], n))
    ELSE rolls

\* _get_next_n_rolls looking no further than the frame after frame_index
get_next_n_rolls_NextFrameOnly(g, frame_index, n) ==
    TakeRolls(<<>>, g.frames[frame_index + 1], n)

\* BowlingGame._get_next_n_rolls
get_next_n_rolls(g, frame_index, n) ==
    NextRollsLoop(g.frames, frame_index + 1, n, <<>>)

\* calculate_frame_score scoring a spare as an open frame, without its bonus
calculate_frame_score_SpareNoBonus(g, frame_index) ==
    LET frame == g.frames[frame_index] IN
    IF frame = <<>> THEN None
    ELSE IF frame_index = 9 THEN Sum(frame)
    ELSE IF frame[1] = 10
    THEN LET next_rolls == get_next_n_rolls(g, frame_index, 2) IN
         IF Len(next_rolls) < 2 THEN None ELSE 10 + Sum(next_rolls)
    ELSE IF Len(frame) = 2 THEN Sum(frame)
    ELSE None

\* calculate_frame_score scoring a strike as soon as one bonus roll exists
calculate_frame_score_EagerStrike(g, frame_index) ==
    LET frame == g.frames[frame_index] IN
    IF frame = <<>> THEN None
    ELSE IF frame_index = 9 THEN Sum(frame)
    ELSE IF frame[1] = 10
    THEN LET next_rolls == get_next_n_rolls(g, frame_index, 2) IN
         IF Len(next_rolls) < 1 THEN None ELSE 10 + Sum(next_rolls)
    ELSE IF Len(frame) = 2 /\ Sum(frame) = 10
    THEN LET next_rolls == get_next_n_rolls(g, frame_index, 1) IN
         IF Len(next_rolls) < 1 THEN None ELSE 10 + next_rolls[1]
    ELSE IF Len(frame) = 2 THEN Sum(frame)
    ELSE None

\* calculate_frame_score adding only the first of a strike's two bonus rolls
calculate_frame_score_StrikeOneBonus(g, frame_index) ==
    LET frame == g.frames[frame_index] IN
    IF frame = <<>> THEN None
    ELSE IF frame_index = 9 THEN Sum(frame)
    ELSE IF frame[1] = 10
    THEN LET next_rolls == get_next_n_rolls(g, frame_index, 2) IN
         IF Len(next_rolls) < 2 THEN None ELSE 10 + next_rolls[1]
    ELSE IF Len(frame) = 2 /\ Sum(frame) = 10
    THEN LET next_rolls == get_next_n_rolls(g, frame_index, 1) IN
         IF Len(next_rolls) < 1 THEN None ELSE 10 + next_rolls[1]
    ELSE IF Len(frame) = 2 THEN Sum(frame)
    ELSE None

\* calculate_frame_score giving the 10th frame a score only once it holds
\* three rolls
calculate_frame_score_TenthNeedsThree(g, frame_index) ==
    LET frame == g.frames[frame_index] IN
    IF frame = <<>> THEN None
    ELSE IF frame_index = 9
    THEN IF Len(frame) < 3 THEN None ELSE Sum(frame)
    ELSE IF frame[1] = 10
    THEN LET next_rolls == get_next_n_rolls(g, frame_index, 2) IN
         IF Len(next_rolls) < 2 THEN None ELSE 10 + Sum(next_rolls)
    ELSE IF Len(frame) = 2 /\ Sum(frame) = 10
    THEN LET next_rolls == get_next_n_rolls(g, frame_index, 1) IN
         IF Len(next_rolls) < 1 THEN None ELSE 10 + next_rolls[1]
    ELSE IF Len(frame) = 2 THEN Sum(frame)
    ELSE None

\* BowlingGame.calculate_frame_score
calculate_frame_score(g, frame_index) ==
    LET frame == g.frames[frame_index] IN
    IF frame = <<>> THEN None
    ELSE IF frame_index = 9 THEN Sum(frame)
    ELSE IF frame[1] = 10
    THEN LET next_rolls == get_next_n_rolls(g, frame_index, 2) IN
         IF Len(next_rolls) < 2 THEN None ELSE 10 + Sum(next_rolls)
    ELSE IF Len(frame) = 2 /\ Sum(frame) = 10
    THEN LET next_rolls == get_next_n_rolls(g, frame_index, 1) IN
         IF Len(next_rolls) < 1 THEN None ELSE 10 + next_rolls[1]
    ELSE IF Len(frame) = 2 THEN Sum(frame)
    ELSE None

RECURSIVE TotalLoop(_, _, _, _)
\* The for loop of get_total_score, from frame i on; it yields the pair
\* <<total, any_scored>> the loop ends with
TotalLoop(g, i, total, any_scored) ==
    IF i >= 10 THEN <<total, any_scored>>
    ELSE LET frame_score == calculate_frame_score(g, i) IN
         IF frame_score # None
         THEN TotalLoop(g, i + 1, total + frame_score, TRUE)
         ELSE <<total, any_scored>>

RECURSIVE TotalLoop_NoBreak(_, _, _, _)
\* The loop of get_total_score skipping a frame without a score instead of
\* stopping at it
TotalLoop_NoBreak(g, i, total, any_scored) ==
    IF i >= 10 THEN <<total, any_scored>>
    ELSE LET frame_score == calculate_frame_score(g, i) IN
         IF frame_score # None
         THEN TotalLoop_NoBreak(g, i + 1, total + frame_score, TRUE)
         ELSE TotalLoop_NoBreak(g, i + 1, total, any_scored)

\* get_total_score over the loop that does not stop
get_total_score_NoBreak(g) ==
    LET end == TotalLoop_NoBreak(g, 0, 0, FALSE) IN
    IF end[2] THEN end[1] ELSE None

\* BowlingGame.get_total_score
get_total_score(g) ==
    LET end == TotalLoop(g, 0, 0, FALSE) IN
    IF end[2] THEN end[1] ELSE None

RECURSIVE CumulativeLoop(_, _, _, _)
\* The for loop of get_cumulative_scores, from frame i on
CumulativeLoop(g, i, running_total, cumulative) ==
    IF i >= 10 THEN cumulative
    ELSE LET frame_score == calculate_frame_score(g, i) IN
         IF frame_score = None
         THEN cumulative \o [j \in 1 .. (10 - i) |-> None]
         ELSE CumulativeLoop(g, i + 1, running_total + frame_score,
                             Append(cumulative, running_total + frame_score))

RECURSIVE CumulativeLoop_NoBreak(_, _, _, _)
\* The loop of get_cumulative_scores going on past a frame without a score,
\* so that later computable frames get a running total again
CumulativeLoop_NoBreak(g, i, running_total, cumulative) ==
    IF i >= 10 THEN cumulative
    ELSE LET frame_score == calculate_frame_score(g, i) IN
         IF frame_score = None
         THEN CumulativeLoop_NoBreak(g, i + 1, running_total,
                                     Append(cumulative, None))
         ELSE CumulativeLoop_NoBreak(g, i + 1, running_total + frame_score,
                             Append(cumulative, running_total + frame_score))

\* get_cumulative_scores over the loop that does not stop
get_cumulative_scores_NoBreak(g) == CumulativeLoop_NoBreak(g, 0, 0, <<>>)

\* BowlingGame.get_cumulative_scores; entry i + 1 is the list's entry i
get_cumulative_scores(g) == CumulativeLoop(g, 0, 0, <<>>)

\* BowlingGame.get_provisional_frame_score, which update_player_scorecard
\* calls for every frame: the frame's score with every bonus roll that does
\* not exist yet counted as 0 (an empty frame counts 0)
get_provisional_frame_score(g, frame_index) ==
    LET frame == g.frames[frame_index] IN
    IF frame = <<>> THEN 0
    ELSE IF frame_index = 9 THEN Sum(frame)
    ELSE IF frame[1] = 10
    THEN 10 + Sum(get_next_n_rolls(g, frame_index, 2))
    ELSE IF Len(frame) = 2 /\ Sum(frame) = 10
    THEN 10 + Sum(get_next_n_rolls(g, frame_index, 1))
    ELSE Sum(frame)

RECURSIVE FinalScoreLoop(_, _, _)
\* The loop of complete_game that adds up the frame scores that are not
\* None, from frame i on
FinalScoreLoop(g, i, total) ==
    IF i >= 10 THEN total
    ELSE LET frame_score == calculate_frame_score(g, i) IN
         IF frame_score # None
         THEN FinalScoreLoop(g, i + 1, total + frame_score)
         ELSE FinalScoreLoop(g, i + 1, total)

\* final_score of ScoringScreen.complete_game: the value it passes to
\* update_game_score for a player game
final_score(g) == FinalScoreLoop(g, 0, 0)

\* BowlingGame.is_frame_complete
is_frame_complete(g, frame_index) ==
    LET frame == g.frames[frame_index] IN
    IF frame_index < 9
    THEN Len(frame) > 0 /\ (frame[1] = 10 \/ Len(frame) = 2)
    ELSE IF Len(frame) < 2 THEN FALSE
    ELSE IF frame[1] = 10 \/ (Len(frame) >= 2 /\ frame[1] + frame[2] = 10)
    THEN Len(frame) = 3
    ELSE Len(frame) = 2

\* BowlingGame.get_current_frame_number
get_current_frame_number(g) ==
    IF g.current_frame + 1 < 10 THEN g.current_frame + 1 ELSE 10

\* BowlingGame.get_current_roll_in_frame
get_current_roll_in_frame(g) == Len(g.frames[g.current_frame]) + 1

\* get_max_pins_for_current_roll allowing all ten pins on every roll
get_max_pins_AlwaysTen(g) == IF g.is_complete THEN 0 ELSE 10

\* get_max_pins_for_current_roll with no limit on the 10th frame's second
\* roll
get_max_pins_NoTenthLimit(g) ==
    LET current_rolls == g.frames[g.current_frame] IN
    IF g.is_complete THEN 0
    ELSE IF Len(current_rolls) = 0 THEN 10
    ELSE IF g.current_frame = 9 /\ Len(current_rolls) = 1 THEN 10
    ELSE IF g.current_frame = 9 /\ Len(current_rolls) = 2
    THEN IF current_rolls[2] = 10 THEN 10
         ELSE IF current_rolls[1] + current_rolls[2] = 10 THEN 10
         ELSE 0
    ELSE 10 - current_rolls[1]

\* BowlingGame.get_max_pins_for_current_roll
get_max_pins_for_current_roll(g) ==
    LET current_rolls == g.frames[g.current_frame] IN
    IF g.is_complete THEN 0
    ELSE IF Len(current_rolls) = 0 THEN 10
    ELSE IF g.current_frame = 9 /\ Len(current_rolls) = 1
    THEN IF current_rolls[1] = 10 THEN 10 ELSE 10 - current_rolls[1]
    ELSE IF g.current_frame = 9 /\ Len(current_rolls) = 2
    THEN IF current_rolls[2] = 10 THEN 10
         ELSE IF current_rolls[1] + current_rolls[2] = 10 THEN 10
         ELSE 0
    ELSE 10 - current_rolls[1]

-----------------------------------------------------------------------------
(* GameManager.                                                            *)

\* BowlingGame.__init__ with the identity GameManager.add_player passes
NewPlayerGame(player_id, player_name, game_id) ==
    [frames |-> [i \in FrameIdx |-> <<>>],
     current_frame |-> 0,
     is_complete |-> FALSE,
     player_id |-> player_id,
     player_name |-> player_name,
     game_id |-> game_id]

\* GameManager.add_player: the player list after the call
add_player(ps, player_id, player_name, game_id) ==
    Append(ps, NewPlayerGame(player_id, player_name, game_id))

\* all(player.is_complete for player in self.players), as used by
\* record_roll, get_winner and GameManager.is_game_complete
is_game_complete(ps) == \A k \in 1 .. Len(ps) : ps[k].is_complete

RECURSIVE AdvanceLoop(_, _, _)
\* The while loop of _advance_to_next_player; idx is the 0-based cursor.
\* It yields the cursor and how many players the loop looked at.
AdvanceLoop(ps, idx, attempts) ==
    IF attempts < Len(ps)
    THEN IF ~ps[idx + 1].is_complete
         THEN [index |-> idx, visited |-> attempts + 1]
         ELSE AdvanceLoop(ps, (idx + 1) % Len(ps), attempts + 1)
    ELSE [index |-> idx, visited |-> attempts]

\* _advance_to_next_player stepping to the next player without skipping
\* the players who have finished
advance_to_next_player_NoSkip(ps, idx) ==
    [index |-> (idx + 1) % Len(ps), visited |-> 1]

\* GameManager._advance_to_next_player
advance_to_next_player(ps, idx) ==
    AdvanceLoop(ps, (idx + 1) % Len(ps), 0)

\* record_roll advancing the turn after every accepted roll
record_roll_AlwaysAdvance(ps, idx, pins) ==
    IF ps = <<>>
    THEN [players |-> ps, index |-> idx, raised |-> "NoActivePlayer"]
    ELSE LET r == add_roll(ps[idx + 1], pins) IN
         IF r.raised
         THEN [players |-> ps, index |-> idx, raised |-> "InvalidRoll"]
         ELSE LET ps1 == [ps EXCEPT ![idx + 1] = r.game]
                  idx1 == advance_to_next_player(ps1, idx).index
              IN [players |-> ps1, index |-> idx1, raised |-> "no",
                  result |->
                     [is_strike |-> r.result.is_strike,
                      is_spare |-> r.result.is_spare,
                      frame_complete |-> r.result.frame_complete,
                      game_complete |-> r.result.game_complete,
                      player_name |-> ps[idx + 1].player_name,
                      all_games_complete |-> is_game_complete(ps1)]]

\* record_roll moving the cursor before it finds out that add_roll raises
record_roll_AdvanceFirst(ps, idx, pins) ==
    IF ps = <<>>
    THEN [players |-> ps, index |-> idx, raised |-> "NoActivePlayer"]
    ELSE LET r == add_roll(ps[idx + 1], pins) IN
         IF r.raised
         THEN [players |-> ps, index |-> (idx + 1) % Len(ps),
               raised |-> "InvalidRoll"]
         ELSE LET ps1 == [ps EXCEPT ![idx + 1] = r.game]
                  idx1 == IF r.result.frame_complete
                          THEN advance_to_next_player(ps1, idx).index
                          ELSE idx
              IN [players |-> ps1, index |-> idx1, raised |-> "no",
                  result |->
                     [is_strike |-> r.result.is_strike,
                      is_spare |-> r.result.is_spare,
                      frame_complete |-> r.result.frame_complete,
                      game_complete |-> r.result.game_complete,
                      player_name |-> ps[idx + 1].player_name,
                      all_games_complete |-> is_game_complete(ps1)]]

\* record_roll computing all_games_complete before the roll is applied
record_roll_StaleFlag(ps, idx, pins) ==
    IF ps = <<>>
    THEN [players |-> ps, index |-> idx, raised |-> "NoActivePlayer"]
    ELSE LET r == add_roll(ps[idx + 1], pins) IN
         IF r.raised
         THEN [players |-> ps, index |-> idx, raised |-> "InvalidRoll"]
         ELSE LET ps1 == [ps EXCEPT ![idx + 1] = r.game]
                  idx1 == IF r.result.frame_complete
                          THEN advance_to_next_player(ps1, idx).index
                          ELSE idx
              IN [players |-> ps1, index |-> idx1, raised |-> "no",
                  result |->
                     [is_strike |-> r.result.is_strike,
                      is_spare |-> r.result.is_spare,
                      frame_complete |-> r.result.frame_complete,
                      game_complete |-> r.result.game_complete,
                      player_name |-> ps[idx + 1].player_name,
                      all_games_complete |-> is_game_complete(ps)]]

\* record_roll passing the turn on when the game, not the frame, is complete
record_roll_AdvanceOnGameComplete(ps, idx, pins) ==
    IF ps = <<>>
    THEN [players |-> ps, index |-> idx, raised |-> "NoActivePlayer"]
    ELSE LET r == add_roll(ps[idx + 1], pins) IN
         IF r.raised
         THEN [players |-> ps, index |-> idx, raised |-> "InvalidRoll"]
         ELSE LET ps1 == [ps EXCEPT ![idx + 1] = r.game]
                  idx1 == IF r.result.game_complete
                          THEN advance_to_next_player(ps1, idx).index
                          ELSE idx
              IN [players |-> ps1, index |-> idx1, raised |-> "no",
                  result |->
                     [is_strike |-> r.result.is_strike,
                      is_spare |-> r.result.is_spare,
                      frame_complete |-> r.result.frame_complete,
                      game_complete |-> r.result.game_complete,
                      player_name |-> ps[idx + 1].player_name,
                      all_games_complete |-> is_game_complete(ps1)]]

\* GameManager.record_roll: the player list and cursor after the call, how
\* the call ended ("no": it returned; else the error it raised) and the
\* dictionary it returned
record_roll(ps, idx, pins) ==
    IF ps = <<>>
    THEN [players |-> ps, index |-> idx, raised |-> "NoActivePlayer"]
    ELSE LET r == add_roll(ps[idx + 1], pins) IN
         IF r.raised
         THEN [players |-> ps, index |-> idx, raised |-> "InvalidRoll"]
         ELSE LET ps1 == [ps EXCEPT ![idx + 1] = r.game]
                  idx1 == IF r.result.frame_complete
                          THEN advance_to_next_player(ps1, idx).index
                          ELSE idx
              IN [players |-> ps1, index |-> idx1, raised |-> "no",
                  result |->
                     [is_strike |-> r.result.is_strike,
                      is_spare |-> r.result.is_spare,
                      frame_complete |-> r.result.frame_complete,
                      game_complete |-> r.result.game_complete,
                      player_name |-> ps[idx + 1].player_name,
                      all_games_complete |-> is_game_complete(ps1)]]

RECURSIVE WinnerLoop(_, _, _, _)
\* The for loop of get_winner from player k (1-based) on; winner is the
\* 0-based index of the player held in the variable winner, or None
WinnerLoop(ps, k, winner, highest_score) ==
    IF k > Len(ps) THEN winner
    ELSE LET score == get_total_score(ps[k]) IN
         IF score # None /\ score > highest_score
         THEN WinnerLoop(ps, k + 1, k - 1, score)
         ELSE WinnerLoop(ps, k + 1, winner, highest_score)

RECURSIVE WinnerLoop_LastTie(_, _, _, _)
\* The loop of get_winner taking a later player on an equal score
WinnerLoop_LastTie(ps, k, winner, highest_score) ==
    IF k > Len(ps) THEN winner
    ELSE LET score == get_total_score(ps[k]) IN
         IF score # None /\ score >= highest_score
         THEN WinnerLoop_LastTie(ps, k + 1, k - 1, score)
         ELSE WinnerLoop_LastTie(ps, k + 1, winner, highest_score)

\* get_winner over the loop that prefers the later player
get_winner_LastTie(ps) ==
    IF ~is_game_complete(ps) THEN None
    ELSE WinnerLoop_LastTie(ps, 1, None, -1)

\* GameManager.get_winner: the 0-based index of the winner, or None
get_winner(ps) ==
    IF ~is_game_complete(ps) THEN None
    ELSE WinnerLoop(ps, 1, None, -1)

-----------------------------------------------------------------------------
(* The specification: a fresh game and calls of add_roll.                  *)

\* Number of rolls recorded after the game's leading run of strikes
FreeRolls(g) ==
    LET rolls == RollsFrom(g.frames, 0) IN Len(rolls) - LeadingStrikes(rolls)

\* The pins a caller may submit in a state
Inputs(g) ==
    IF FreeRolls(g) < MaxFreeRolls
    THEN PinValues \cup BadPins
    ELSE FillerPins \cup BadPins

\* The single game before its first call
InitGame ==
    /\ game = NewGame
    /\ arg = 0
    /\ raised = FALSE
    /\ result = NewResult

\* GameManager.__init__: no players, cursor 0; no call made yet
InitMatch ==
    /\ players = <<>>
    /\ current_player_index = 0
    /\ outcome = [kind |-> "none"]

\* BowlingTrackerApp.__init__ and ScoringScreen.__init__: the main menu is
\* shown, no counter, timer or database call exists yet
InitScreen ==
    /\ view = 0
    /\ frame_counter_frozen = FALSE
    /\ pin_buttons = 10
    /\ player_id_to_consecutive_strikes = <<>>
    /\ timers = <<>>
    /\ db_last_game_id = 0
    /\ db_calls = <<>>
    /\ game_results = <<>>

Init == InitGame /\ InitMatch /\ InitScreen

\* One call of add_roll(pins)
AddRoll(pins) ==
    LET r == add_roll(game, pins) IN
    /\ game' = r.game
    /\ arg' = pins
    /\ raised' = r.raised
    /\ result' = r.result
    /\ UNCHANGED <<matchVars, screenVars>>

Next == \E pins \in Inputs(game) : AddRoll(pins)

Spec == Init /\ [][Next]_vars

\* The pins the scoring screen lets the player submit: its pin buttons are
\* enabled up to get_max_pins_for_current_roll()
ValidInputs(g) ==
    {pins \in Inputs(g) :
        0 <= pins /\ pins <= get_max_pins_for_current_roll(g)}

NextValid == \E pins \in ValidInputs(game) : AddRoll(pins)

\* Valid play: every submitted roll is within the current maximum
SpecValid == Init /\ [][NextValid]_vars

-----------------------------------------------------------------------------
(* The match: a GameManager, add_player and record_roll calls.             *)

\* The pins the active player may submit in a match
MatchInputs(ps, idx) ==
    IF ps = <<>> THEN MatchPinValues \cup BadPins
    ELSE LET rolls == RollsFrom(ps[idx + 1].frames, 0) IN
         IF rolls = <<>> THEN MatchPinValues \cup BadPins
         ELSE {rolls[1]} \cup BadPins

\* One call of add_player; the k-th player gets id k and name k, and no
\* game_id
AddPlayer ==
    /\ Len(players) < MaxPlayers
    /\ players' = add_player(players, Len(players) + 1, Len(players) + 1,
                             None)
    /\ outcome' = [kind |-> "added"]
    /\ UNCHANGED <<current_player_index, gameVars, screenVars>>

\* One call of record_roll(pins)
RecordRoll(pins) ==
    LET r == record_roll(players, current_player_index, pins) IN
    /\ players' = r.players
    /\ current_player_index' = r.index
    /\ outcome' = IF r.raised = "no"
                  THEN [kind |-> "returned", pins |-> pins,
                        result |-> r.result]
                  ELSE [kind |-> r.raised, pins |-> pins]
    /\ UNCHANGED <<gameVars, screenVars>>

NextMatch ==
    \/ AddPlayer
    \/ \E pins \in MatchInputs(players, current_player_index) :
          RecordRoll(pins)

SpecMatch == Init /\ [][NextMatch]_vars

-----------------------------------------------------------------------------
(* The match as the scoring screen sets it up: start_new_game adds every   *)
(* player before the first roll, and the roster never changes afterwards.  *)

\* No roll has been recorded for any player yet
NoRollYet(ps) == \A k \in 1 .. Len(ps) : ps[k].frames[0] = <<>>

\* The pins the active player may submit in a fixed-roster match: the pin
\* count of their first roll again in frames 1-9, and in frame 10 whatever
\* they open that frame with
FixedInputs(ps, idx) ==
    IF ps = <<>> THEN MatchPinValues \cup BadPins
    ELSE LET g == ps[idx + 1] IN
         IF g.current_frame = 9
         THEN IF g.frames[9] = <<>> THEN MatchPinValues \cup BadPins
              ELSE {g.frames[9][1]} \cup BadPins
         ELSE IF g.frames[0] = <<>> THEN MatchPinValues \cup BadPins
         ELSE {g.frames[0][1]} \cup BadPins

\* add_player as start_new_game calls it: before any roll
AddPlayerBeforeStart ==
    /\ NoRollYet(players)
    /\ AddPlayer

NextFixed ==
    \/ AddPlayerBeforeStart
    \/ \E pins \in FixedInputs(players, current_player_index) :
          RecordRoll(pins)

SpecFixed == Init /\ [][NextFixed]_vars

-----------------------------------------------------------------------------
(* _advance_to_next_player on its own, from any completion flags and       *)
(* cursor.                                                                 *)

\* A complete game: twenty gutter balls
GutterGame(player_id, player_name) ==
    [frames |-> [i \in FrameIdx |-> <<0, 0>>],
     current_frame |-> 9,
     is_complete |-> TRUE,
     player_id |-> player_id,
     player_name |-> player_name,
     game_id |-> None]

\* The player lists of n players, each a fresh or a complete game
PlayerLists(n) ==
    {[k \in 1 .. n |-> IF k \in done THEN GutterGame(k, k)
                       ELSE NewPlayerGame(k, k, None)] : done \in SUBSET (1 .. n)}

InitAdvance ==
    /\ InitGame
    /\ \E n \in 1 .. MaxAdvancePlayers :
          /\ players \in PlayerLists(n)
          /\ current_player_index \in 0 .. (n - 1)
    /\ outcome = [kind |-> "none"]
    /\ InitScreen

\* One call of _advance_to_next_player
Advance ==
    LET r == advance_to_next_player(players, current_player_index) IN
    /\ current_player_index' = r.index
    /\ outcome' = [kind |-> "advanced", from |-> current_player_index,
                   visited |-> r.visited]
    /\ UNCHANGED <<players, gameVars, screenVars>>

NextAdvance == Advance

SpecAdvance == InitAdvance /\ [][NextAdvance]_vars

-----------------------------------------------------------------------------
(* The scoring screen: ScoringScreen of src/ui/scoring_screen.py inside    *)
(* the BowlingTrackerApp of src/main.py.  Its GameManager is held in       *)
(* players and current_player_index; no player stands for game_manager =   *)
(* None.  A QTimer.singleShot callback may fire at any later moment.       *)

\* The stacked widget's indices of the screens that matter here
MainMenuView == 0

ScoringView == 2

GameOverView == 4

\* dict.get(key, 0) on the strike counters
CounterGet(counters, pid) ==
    IF pid \in DOMAIN counters THEN counters[pid] ELSE 0

\* counters[pid] = value
CounterSet(counters, pid, value) ==
    [k \in (DOMAIN counters) \cup {pid} |->
        IF k = pid THEN value ELSE counters[k]]

\* A pending QTimer.singleShot callback
Timer(callback, results) == [callback |-> callback, results |-> results]

\* A list without its i-th element
RemoveAt(seq, i) ==
    [k \in 1 .. (Len(seq) - 1) |-> IF k < i THEN seq[k] ELSE seq[k + 1]]

RECURSIVE AddPlayers(_, _, _)
\* The loop of start_new_game and start_rematch: create_game and add_player
\* for every selected player; a player's name is modelled by their id
AddPlayers(ps, ids, last_game_id) ==
    IF ids = <<>> THEN ps
    ELSE AddPlayers(add_player(ps, Head(ids), Head(ids), last_game_id + 1),
                    Tail(ids), last_game_id + 1)

\* The pin buttons update_display leaves enabled: those up to
\* get_max_pins_for_current_roll() of the current player, none while the
\* frame counter is frozen.  (It also redraws every scorecard from
\* get_cumulative_scores and get_provisional_frame_score.)
update_display(ps, idx, frozen) ==
    IF ps # <<>> /\ ~frozen
    THEN get_max_pins_for_current_roll(ps[idx + 1])
    ELSE -1

\* The player record_pins looks up by the name in the roll's result
PlayerByName(ps, name) ==
    LET found == {k \in 1 .. Len(ps) : ps[k].player_name = name} IN
    IF found = {} THEN 0
    ELSE CHOOSE k \in found : \A j \in found : k <= j

\* The database calls complete_game makes for one player game
PlayerCalls(g) ==
    LET Roll(rolls, k) == IF Len(rolls) >= k THEN rolls[k] ELSE None IN
    <<[call |-> "update_game_score", game_id |-> g.game_id,
       final_score |-> final_score(g), frame_number |-> 0,
       roll1 |-> None, roll2 |-> None, roll3 |-> None]>>
    \o [f \in 1 .. 10 |->
          [call |-> "add_frame", game_id |-> g.game_id,
           final_score |-> None, frame_number |-> f,
           roll1 |-> Roll(g.frames[f - 1], 1),
           roll2 |-> Roll(g.frames[f - 1], 2),
           roll3 |-> Roll(g.frames[f - 1], 3)]]

RECURSIVE GameCalls(_)
\* The database calls of complete_game's loop over the players
GameCalls(ps) ==
    IF ps = <<>> THEN <<>> ELSE PlayerCalls(Head(ps)) \o GameCalls(Tail(ps))

\* The results list complete_game builds
GameResults(ps) ==
    [k \in 1 .. Len(ps) |->
        [player_name |-> ps[k].player_name,
         player_id |-> ps[k].player_id,
         final_score |-> final_score(ps[k])]]

\* The pins of the enabled pin buttons the active player may press
ScreenInputs ==
    {pins \in FixedInputs(players, current_player_index) :
        0 <= pins /\ pins <= pin_buttons}

\* show_game_setup and start_new_game with n players selected: a new
\* GameManager, the strike counters at 0, a Game row per player
StartNewGame(n) ==
    LET ids == [k \in 1 .. n |-> k] IN
    /\ view = MainMenuView
    /\ db_last_game_id + n <= MaxGames
    /\ players' = AddPlayers(<<>>, ids, db_last_game_id)
    /\ current_player_index' = 0
    /\ outcome' = [kind |-> "added"]
    /\ player_id_to_consecutive_strikes' = [k \in 1 .. n |-> 0]
    /\ db_last_game_id' = db_last_game_id + n
    /\ pin_buttons' = update_display(players', 0, frame_counter_frozen)
    /\ view' = ScoringView
    /\ UNCHANGED <<gameVars, frame_counter_frozen, timers, db_calls,
                   game_results>>

\* handle_rematch and start_rematch: a new GameManager for the players of
\* the results on show; the strike counters are not touched
StartRematch ==
    LET ids == [k \in 1 .. Len(game_results) |-> game_results[k].player_id]
    IN
    /\ view = GameOverView
    /\ ids # <<>>
    /\ db_last_game_id + Len(ids) <= MaxGames
    /\ players' = AddPlayers(<<>>, ids, db_last_game_id)
    /\ current_player_index' = 0
    /\ outcome' = [kind |-> "added"]
    /\ db_last_game_id' = db_last_game_id + Len(ids)
    /\ pin_buttons' = update_display(players', 0, frame_counter_frozen)
    /\ view' = ScoringView
    /\ UNCHANGED <<gameVars, frame_counter_frozen, timers, db_calls,
                   game_results, player_id_to_consecutive_strikes>>

\* on_pin_button_clicked and record_pins: an enabled pin button is pressed
PinButtonClicked(pins) ==
    LET r == record_roll(players, current_player_index, pins) IN
    /\ view = ScoringView
    /\ players # <<>>
    /\ IF r.raised # "no"
       THEN \* QMessageBox.warning; nothing else happens
            /\ outcome' = [kind |-> r.raised, pins |-> pins]
            /\ UNCHANGED <<players, current_player_index, screenVars>>
       ELSE LET k == PlayerByName(r.players, r.result.player_name)
                pid == r.players[k].player_id
                shown == update_display(r.players, r.index,
                                        frame_counter_frozen)
                animated == r.result.is_strike \/ r.result.is_spare
                                \/ pins = 0
                counters ==
                    IF r.result.is_strike
                    THEN IF k = 0 THEN player_id_to_consecutive_strikes
                         ELSE CounterSet(player_id_to_consecutive_strikes,
                                  pid,
                                  CounterGet(player_id_to_consecutive_strikes,
                                             pid) + 1)
                    ELSE IF r.result.is_spare \/ pins = 0 \/ k = 0
                    THEN player_id_to_consecutive_strikes
                    ELSE CounterSet(player_id_to_consecutive_strikes, pid, 0)
                unfreeze == IF animated
                            THEN <<Timer("unfreeze_frame_counter", <<>>)>>
                            ELSE <<>>
                complete == IF r.result.all_games_complete
                            THEN <<Timer("complete_game", <<>>)>>
                            ELSE <<>>
            IN  /\ players' = r.players
                /\ current_player_index' = r.index
                /\ outcome' = [kind |-> "returned", pins |-> pins,
                               result |-> r.result]
                /\ player_id_to_consecutive_strikes' = counters
                /\ frame_counter_frozen' =
                      (animated \/ frame_counter_frozen)
                /\ pin_buttons' = IF animated THEN -1 ELSE shown
                /\ timers' = timers \o unfreeze \o complete
                /\ UNCHANGED <<view, db_last_game_id, db_calls,
                               game_results>>
    /\ UNCHANGED gameVars

\* A pending unfreeze_frame_counter callback fires
UnfreezeFires(i) ==
    /\ timers[i].callback = "unfreeze_frame_counter"
    /\ timers' = RemoveAt(timers, i)
    /\ frame_counter_frozen' = FALSE
    /\ pin_buttons' = update_display(players, current_player_index, FALSE)
    /\ UNCHANGED <<gameVars, matchVars, view,
                   player_id_to_consecutive_strikes, db_last_game_id,
                   db_calls, game_results>>

\* A pending complete_game callback fires: the scores and frames of the
\* players of the GameManager the screen holds now are saved, and the
\* results are handed to a further timer
CompleteGameFires(i) ==
    /\ timers[i].callback = "complete_game"
    /\ db_calls' = db_calls \o GameCalls(players)
    /\ timers' = Append(RemoveAt(timers, i),
                        Timer("_emit_game_complete", GameResults(players)))
    /\ UNCHANGED <<gameVars, matchVars, view, frame_counter_frozen,
                   pin_buttons, player_id_to_consecutive_strikes,
                   db_last_game_id, game_results>>

\* A pending _emit_game_complete callback fires: game_complete is emitted
\* and show_game_over puts the results on the game over screen
EmitGameCompleteFires(i) ==
    /\ timers[i].callback = "_emit_game_complete"
    /\ timers' = RemoveAt(timers, i)
    /\ game_results' = timers[i].results
    /\ view' = GameOverView
    /\ UNCHANGED <<gameVars, matchVars, frame_counter_frozen, pin_buttons,
                   player_id_to_consecutive_strikes, db_last_game_id,
                   db_calls>>

\* confirm_exit, answered Yes where it asks: back_clicked shows the main menu
ConfirmExit ==
    /\ view = ScoringView
    /\ view' = MainMenuView
    /\ UNCHANGED <<gameVars, matchVars, frame_counter_frozen, pin_buttons,
                   player_id_to_consecutive_strikes, timers,
                   db_last_game_id, db_calls, game_results>>

\* handle_main_menu of the game over screen
GameOverToMainMenu ==
    /\ view = GameOverView
    /\ view' = MainMenuView
    /\ UNCHANGED <<gameVars, matchVars, frame_counter_frozen, pin_buttons,
                   player_id_to_consecutive_strikes, timers,
                   db_last_game_id, db_calls, game_results>>

NextScreen ==
    \/ \E n \in 2 .. MaxScreenPlayers : StartNewGame(n)
    \/ StartRematch
    \/ \E pins \in ScreenInputs : PinButtonClicked(pins)
    \/ \E i \in 1 .. Len(timers) : UnfreezeFires(i)
    \/ \E i \in 1 .. Len(timers) : CompleteGameFires(i)
    \/ \E i \in 1 .. Len(timers) : EmitGameCompleteFires(i)
    \/ ConfirmExit
    \/ GameOverToMainMenu

SpecScreen == Init /\ [][NextScreen]_vars

TypeOK ==
    /\ game.current_frame \in 0 .. 10
    /\ game.is_complete \in BOOLEAN
    /\ raised \in BOOLEAN
    /\ arg \in PinValues \cup BadPins

-----------------------------------------------------------------------------
(* Notions used by the properties.                                         *)

\* Every roll recorded so far, in the order it was made
AllRolls == RollsFrom(game.frames, 0)

\* Every roll recorded so far knocked down ten pins
AllStrikes == \A k \in 1 .. Len(AllRolls) : AllRolls[k] = 10

\* The 10th frame of the game
Tenth == game.frames[9]

\* The last call was accepted and put its roll in the 10th frame
RolledInTenth == ~raised /\ game.current_frame = 9 /\ Tenth # <<>>

RECURSIVE SumScores(_, _)
\* Sum of the frame scores of frames 0..k-1
SumScores(g, k) ==
    IF k = 0 THEN 0
    ELSE SumScores(g, k - 1) + calculate_frame_score(g, k - 1)

\* The first frame whose score is not computable, 10 if there is none
FirstUnscored(g) ==
    LET score == [i \in FrameIdx |-> calculate_frame_score(g, i)] IN
    IF \A i \in FrameIdx : score[i] # None THEN 10
    ELSE CHOOSE i \in FrameIdx :
            /\ score[i] = None
            /\ \A j \in 0 .. (i - 1) : score[j] # None

-----------------------------------------------------------------------------
(* Properties.                                                             *)

\* C1: after any accepted rolls, the first two rolls of every frame 1-9
\* (indices 0..8) sum to at most 10.
C1_FrameSumAtMostTen ==
    \A i \in 0 .. 8 :
        Len(game.frames[i]) >= 2 => game.frames[i][1] + game.frames[i][2] <= 10

\* C2: add_roll raises exactly when the game is already complete or pins is
\* outside 0..10; a call that raises leaves the game as it was; and a
\* complete game never changes again.
C2_FailsAtomically ==
    [][ /\ raised' <=> (game.is_complete \/ arg' < 0 \/ arg' > 10)
        /\ raised' => game' = game
        /\ game.is_complete => game' = game ]_vars

\* C2 witness: a roll of legal pins was refused because the game is complete.
C2_Witness == raised /\ game.is_complete /\ arg \in 0 .. 10

\* C3: twelve rolls of 10 from a fresh game are all accepted, the game is
\* complete exactly at the twelfth, frame 10 then holds 3 rolls and the total
\* score is 300.
C3_PerfectGame ==
    AllStrikes =>
        /\ Len(AllRolls) <= 12
        /\ game.is_complete <=> Len(AllRolls) = 12
        /\ Len(AllRolls) < 12 => ~add_roll(game, 10).raised
        /\ Len(AllRolls) = 12 =>
              Len(Tenth) = 3 /\ get_total_score(game) = 300

\* C3 witness: the twelfth strike has been rolled.
C3_Witness ==
    AllStrikes /\ Len(AllRolls) = 12 /\ ~raised /\ result.game_complete

\* C4: in frame 10 a roll of 10 on the first delivery, or on the second or
\* third delivery after an earned bonus, returns is_strike true.
C4_TenthFrameStrikeFlag ==
    (/\ RolledInTenth
     /\ arg = 10
     /\ \/ Len(Tenth) = 1
        \/ Len(Tenth) = 2 /\ Tenth[1] = 10
        \/ Len(Tenth) = 3 /\ (Tenth[1] = 10 \/ Tenth[1] + Tenth[2] = 10))
    => result.is_strike

\* C5: the score of a strike frame i in 0..8 is None while fewer than two
\* rolls exist in later frames, and else 10 plus the first two rolls after
\* frame i in frame order.
C5_StrikeScore ==
    \A i \in 0 .. 8 :
        (game.frames[i] # <<>> /\ game.frames[i][1] = 10) =>
            LET later == RollsFrom(game.frames, i + 1) IN
            calculate_frame_score(game, i) =
                IF Len(later) < 2 THEN None ELSE 10 + later[1] + later[2]

\* C5 witness: a strike whose two bonus rolls lie in two different frames.
C5_Witness ==
    \E i \in 0 .. 7 :
        /\ game.frames[i] = <<10>>
        /\ game.frames[i + 1] = <<10>>
        /\ game.frames[i + 2] # <<>>
        /\ game.frames[i + 2][1] = 3
        /\ calculate_frame_score(game, i) = 23

\* C6: the score of a spare frame i in 0..8 is None while no later roll
\* exists and else 10 plus the next roll; an open frame of two rolls scores
\* their sum; the cumulative score through the frame after a spare holds the
\* bonus roll once as bonus and once in that frame's own score.
C6_SpareScore ==
    \A i \in 0 .. 8 :
        LET frame == game.frames[i]
            later == RollsFrom(game.frames, i + 1)
            cumulative == get_cumulative_scores(game)
            before == IF i = 0 THEN 0 ELSE cumulative[i]
        IN  Len(frame) = 2 =>
            /\ (frame[1] < 10 /\ frame[1] + frame[2] = 10) =>
                  /\ calculate_frame_score(game, i) =
                        IF later = <<>> THEN None ELSE 10 + later[1]
                  /\ cumulative[i + 2] # None =>
                        cumulative[i + 2] =
                            before + 10 + later[1]
                                + calculate_frame_score(game, i + 1)
            /\ frame[1] + frame[2] < 10 =>
                  calculate_frame_score(game, i) = frame[1] + frame[2]

\* C6 witness: a spare 7,3 followed by a frame 3,3 that is scored.
C6_Witness ==
    \E i \in 0 .. 8 :
        /\ game.frames[i] = <<7, 3>>
        /\ game.frames[i + 1] = <<3, 3>>
        /\ calculate_frame_score(game, i) = 13
        /\ get_cumulative_scores(game)[i + 2] # None

\* C7: with the cursor at frame 10, a roll marks the game complete exactly
\* when frame 10 then holds three rolls, or two rolls with no strike on the
\* first and no spare; until then is_complete, frame_complete and
\* game_complete are false.
C7_TenthFrameCompletion ==
    RolledInTenth =>
        LET done == \/ Len(Tenth) = 3
                    \/ /\ Len(Tenth) = 2
                       /\ Tenth[1] # 10
                       /\ Tenth[1] + Tenth[2] # 10
        IN  /\ game.is_complete = done
            /\ result.frame_complete = done
            /\ result.game_complete = done

\* C8: in frames 1-9 is_strike is set only by a first roll of 10; a second
\* roll completes the frame and advances the cursor by one, with is_spare set
\* iff the two rolls sum to 10; a first roll below 10 completes nothing.
C8_RegularFrameOutcome ==
    [][ (game.current_frame < 9 /\ ~raised') =>
            LET k == game.current_frame
                frame == game'.frames[k]
            IN  /\ result'.is_strike => (Len(frame) = 1 /\ arg' = 10)
                /\ Len(frame) = 2 =>
                      /\ result'.frame_complete
                      /\ game'.current_frame = k + 1
                      /\ result'.is_spare <=> (frame[1] + frame[2] = 10)
                /\ (Len(frame) = 1 /\ arg' < 10) =>
                      /\ ~result'.frame_complete
                      /\ game'.current_frame = k ]_vars

\* C9: once is_frame_complete(i) is true, no later add_roll changes frame i.
C9_CompleteFrameFrozen ==
    [][ \A i \in FrameIdx :
            is_frame_complete(game, i) => game'.frames[i] = game.frames[i] ]_vars

\* C10: get_total_score is the sum of the frame scores over the longest
\* prefix of frames that are all computable, and None iff frame 0 is not
\* computable.
C10_TotalIsPrefixSum ==
    LET k == FirstUnscored(game)
        total == get_total_score(game)
    IN  /\ total = IF k = 0 THEN None ELSE SumScores(game, k)
        /\ total = None <=> calculate_frame_score(game, 0) = None

\* C10 witness: a frame after the first non-computable one is computable,
\* and is left out of the total.
C10_Witness ==
    LET k == FirstUnscored(game) IN
    /\ k \in 1 .. 8
    /\ \E j \in (k + 1) .. 9 : calculate_frame_score(game, j) # None
    /\ get_total_score(game) = SumScores(game, k)

\* C11: get_cumulative_scores returns 10 entries, the defined ones form a
\* prefix and are non-decreasing in frame order.
C11_CumulativePrefixMonotone ==
    LET cumulative == get_cumulative_scores(game) IN
    /\ Len(cumulative) = 10
    /\ \A i \in 1 .. 9 :
          /\ cumulative[i] = None => cumulative[i + 1] = None
          /\ cumulative[i + 1] # None => cumulative[i] <= cumulative[i + 1]

\* C11 witness: a scored prefix that grows, then a frame without a score
\* followed by a frame that has a score of its own.
C11_Witness ==
    LET cumulative == get_cumulative_scores(game) IN
    \E i \in 2 .. 8 :
        /\ cumulative[i - 1] # None
        /\ cumulative[i - 1] < cumulative[i]
        /\ cumulative[i + 1] = None
        /\ calculate_frame_score(game, i + 1) # None

\* C12: while the active frame is one of frames 1-9, the maximum for the
\* current roll is 10 on the first roll and 10 minus the first roll on the
\* second, so maximum plus pins already rolled in the frame is at most 10.
C12_MaxPinsRegularFrame ==
    (~game.is_complete /\ game.current_frame < 9) =>
        LET frame == game.frames[game.current_frame]
            max_pins == get_max_pins_for_current_roll(game)
        IN  /\ Len(frame) <= 1
            /\ Len(frame) = 0 => max_pins = 10
            /\ Len(frame) = 1 => max_pins = 10 - frame[1]
            /\ max_pins + Sum(frame) <= 10

\* C12 witness: a first roll of 3 in a frame 1-9 leaves a maximum of 7.
C12_Witness ==
    /\ game.current_frame < 9
    /\ game.frames[game.current_frame] = <<3>>
    /\ get_max_pins_for_current_roll(game) = 7

\* C13: in valid play, when the game is not complete and frame 10 holds two
\* rolls, the maximum for the third roll is not 0.
C13_ThirdRollMaxNotZero ==
    (~game.is_complete /\ game.current_frame = 9 /\ Len(Tenth) = 2) =>
        get_max_pins_for_current_roll(game) # 0

\* C14: in every state, also after the game is complete, the current roll
\* number is 1, 2 or 3 and the current frame number is in 1..10.
C14_PositionInRange ==
    /\ get_current_roll_in_frame(game) \in 1 .. 3
    /\ get_current_frame_number(game) \in 1 .. 10

\* The 0-based index of the first player who is not complete, in cyclic
\* order strictly after the cursor from (from itself comes last); with
\* every player complete, the index after from
FirstActiveAfter(ps, from) ==
    LET n == Len(ps)
        Dist(k) == (k - from - 1 + n) % n
        active == {k \in 0 .. (n - 1) : ~ps[k + 1].is_complete}
    IN  IF active = {} THEN (from + 1) % n
        ELSE CHOOSE k \in active : \A j \in active : Dist(k) <= Dist(j)

\* The player at the cursor
ActivePlayer == players[current_player_index + 1]

\* C15: after any add_player and record_roll calls, if some player game is
\* not complete then the player at the cursor is not complete.
C15_CursorOnUnfinishedPlayer ==
    (players # <<>> /\ ~is_game_complete(players)) => ~ActivePlayer.is_complete

\* C16: record_roll raises NoActivePlayer exactly when there are no players,
\* raises InvalidRoll exactly when the active player's add_roll raises, and
\* a call that raises leaves the player games and the cursor unchanged.
C16_RecordRollFailsAtomically ==
    [][ outcome'.kind \in {"returned", "NoActivePlayer", "InvalidRoll"} =>
          /\ outcome'.kind = "NoActivePlayer" <=> players = <<>>
          /\ outcome'.kind = "InvalidRoll" <=>
                (players # <<>> /\ (\/ ActivePlayer.is_complete
                                    \/ outcome'.pins < 0
                                    \/ outcome'.pins > 10))
          /\ outcome'.kind # "returned" =>
                /\ players' = players
                /\ current_player_index' = current_player_index ]_vars

\* C16 witness: in a match under way, not at the first player's turn, a
\* roll of 11 pins was refused.
C16_Witness ==
    /\ outcome.kind = "InvalidRoll"
    /\ outcome.pins = 11
    /\ current_player_index > 0
    /\ ~ActivePlayer.is_complete
    /\ ActivePlayer.frames[0] # <<>>

\* C17: a record_roll that returns changes only the game of the player who
\* was active; it moves the cursor to the next unfinished player iff the
\* outcome has frame_complete, and else leaves it; player_name is the name
\* of the player who rolled.
C17_RecordRollEffect ==
    [][ outcome'.kind = "returned" =>
          LET i == current_player_index + 1 IN
          /\ Len(players') = Len(players)
          /\ \A k \in 1 .. Len(players) : k # i => players'[k] = players[k]
          /\ players'[i] # players[i]
          /\ outcome'.result.frame_complete =>
                current_player_index' =
                    FirstActiveAfter(players', current_player_index)
          /\ ~outcome'.result.frame_complete =>
                current_player_index' = current_player_index
          /\ outcome'.result.player_name = players[i].player_name ]_vars

\* C17 witness: the roll that completed a player's whole game passed the
\* turn on to another player.
C17_Witness ==
    /\ outcome.kind = "returned"
    /\ outcome.result.frame_complete
    /\ outcome.result.game_complete
    /\ ~outcome.result.all_games_complete
    /\ outcome.result.player_name # ActivePlayer.player_name

\* C18: from any completion flags and cursor, _advance_to_next_player looks
\* at no more than len(players) players, and if some player is not complete
\* it leaves the cursor at the first such player in cyclic order strictly
\* after the previous cursor.
C18_AdvanceFindsNextUnfinished ==
    outcome.kind = "advanced" =>
        /\ outcome.visited <= Len(players)
        /\ ~is_game_complete(players) =>
              /\ ~ActivePlayer.is_complete
              /\ current_player_index = FirstActiveAfter(players, outcome.from)

\* C18 witness: the loop skipped at least two finished players.
C18_Witness ==
    /\ outcome.kind = "advanced"
    /\ outcome.visited >= 3
    /\ ~ActivePlayer.is_complete
    /\ current_player_index # outcome.from

\* C19: get_winner returns None while a player game is not complete; once
\* all games of a non-empty match are complete it returns a player whose
\* total is at least every other total, the earliest such in join order.
C19_Winner ==
    LET winner == get_winner(players)
        Total(k) == get_total_score(players[k])
    IN  /\ ~is_game_complete(players) => winner = None
        /\ (players # <<>> /\ is_game_complete(players)) =>
              /\ winner \in 0 .. (Len(players) - 1)
              /\ \A k \in 1 .. Len(players) : Total(k) <= Total(winner + 1)
              /\ \A k \in 1 .. winner : Total(k) < Total(winner + 1)

\* C19 witness: of two players tied on the highest total, the earlier one,
\* who is not the first player, wins.
C19_Witness ==
    /\ Len(players) = 3
    /\ is_game_complete(players)
    /\ get_winner(players) = 1
    /\ get_total_score(players[2]) = get_total_score(players[3])
    /\ get_total_score(players[1]) < get_total_score(players[2])

\* C20: the all_games_complete flag a record_roll returns equals
\* is_game_complete() right after the call, true iff every player game is
\* complete; it is true only on a roll that completes its player's game.
C20_AllGamesCompleteFlag ==
    outcome.kind = "returned" =>
        /\ outcome.result.all_games_complete <=> is_game_complete(players)
        /\ outcome.result.all_games_complete <=>
              \A k \in 1 .. Len(players) : players[k].is_complete
        /\ outcome.result.all_games_complete => outcome.result.game_complete

\* C20 witness: the final roll of a match of several players.
C20_Witness ==
    /\ outcome.kind = "returned"
    /\ outcome.result.all_games_complete
    /\ Len(players) >= 2

\* C21: in every state the provisional frame score is a number for every
\* frame index, it counts a bonus roll that does not exist yet as 0, and it
\* equals calculate_frame_score(i) wherever that is not None.
C21_ProvisionalScore ==
    \A i \in FrameIdx :
        LET frame == game.frames[i]
            later == RollsFrom(game.frames, i + 1)
            score == calculate_frame_score(game, i)
            provisional == get_provisional_frame_score(game, i)
        IN  /\ provisional \in Nat
            /\ score # None => provisional = score
            /\ score = None =>
                  provisional =
                      IF frame = <<>> THEN 0
                      ELSE IF frame[1] = 10 THEN 10 + Sum(later)
                      ELSE Sum(frame)

\* C21 witness: a strike with one of its two bonus rolls made, after a
\* strike whose score is final.
C21_Witness ==
    \E i \in 1 .. 7 :
        /\ game.frames[i - 1] = <<10>>
        /\ game.frames[i] = <<10>>
        /\ game.frames[i + 1] = <<3>>
        /\ calculate_frame_score(game, i - 1) = 23
        /\ get_provisional_frame_score(game, i - 1) = 23
        /\ calculate_frame_score(game, i) = None
        /\ get_provisional_frame_score(game, i) = 13

\* C23: in every state the cursor is in 0..9, every frame after it is empty,
\* every frame before it is non-empty and complete (one roll of 10, or
\* exactly two rolls), frames 1-9 hold at most 2 rolls and frame 10 at most 3.
C23_FrameShape ==
    /\ game.current_frame \in 0 .. 9
    /\ \A i \in FrameIdx :
          LET frame == game.frames[i] IN
          /\ i > game.current_frame => frame = <<>>
          /\ i < game.current_frame =>
                /\ frame # <<>>
                /\ frame = <<10>> \/ Len(frame) = 2
          /\ i < 9 => Len(frame) <= 2
          /\ Len(frame) <= 3

\* C23 witness: a complete game with a strike frame, a two-roll frame and
\* three rolls in frame 10.
C23_Witness ==
    /\ game.is_complete
    /\ game.current_frame = 9
    /\ Len(Tenth) = 3
    /\ \E i, j \in 0 .. 8 : game.frames[i] = <<10>> /\ Len(game.frames[j]) = 2

\* get_total_score() read as a number: None counts as 0
TotalOrZero(g) ==
    LET total == get_total_score(g) IN IF total = None THEN 0 ELSE total

\* C26: once entry i (0..8) of get_cumulative_scores() is defined it keeps
\* its value after every later roll; entry 9 never decreases once defined;
\* get_total_score() (None as 0) never decreases.
C26_ScoresStable ==
    [][ \A before \in {get_cumulative_scores(game)} :
        \A after \in {get_cumulative_scores(game')} :
            /\ \A i \in 1 .. 9 : before[i] # None => after[i] = before[i]
            /\ before[10] # None => after[10] >= before[10]
            /\ TotalOrZero(game') >= TotalOrZero(game) ]_vars

\* C26 witness: the third roll of frame 10 raised the last entry while the
\* entries before it were already defined.
C26_Witness ==
    /\ ~raised
    /\ game.is_complete
    /\ Len(Tenth) = 3
    /\ Tenth[3] > 0
    /\ get_cumulative_scores(game)[9] # None
    /\ get_cumulative_scores(game)[10] = get_total_score(game)

\* C27: an accepted roll returns is_spare true only if it is the second roll
\* of its frame, the frame's first roll is below 10 and the two sum to 10;
\* is_strike and is_spare are never both true.
C27_SpareFlag ==
    [][ ~raised' =>
          LET frame == game'.frames[game.current_frame] IN
          /\ result'.is_spare =>
                /\ Len(frame) = 2
                /\ frame[1] < 10
                /\ frame[1] + frame[2] = 10
          /\ ~(result'.is_strike /\ result'.is_spare) ]_vars

\* C28: whenever the game is complete, every frame score is computable,
\* get_total_score() is not None and is the sum of the ten frame scores, and
\* the final score complete_game saves is that value.
C28_CompleteGameTotal ==
    game.is_complete =>
        /\ \A i \in FrameIdx : calculate_frame_score(game, i) # None
        /\ get_total_score(game) # None
        /\ get_total_score(game) = SumScores(game, 10)
        /\ final_score(game) = get_total_score(game)

\* C28 witness: a complete game whose frame 9 is a strike scored with two
\* rolls of a three-roll frame 10.
C28_Witness ==
    /\ game.is_complete
    /\ game.frames[8] = <<10>>
    /\ Len(Tenth) = 3
    /\ calculate_frame_score(game, 8) = 10 + Tenth[1] + Tenth[2]
    /\ final_score(game) > Sum(AllRolls)

\* C29: in valid play every frame 1-9 sums to at most 10, the first two
\* rolls of frame 10 sum to at most 10 unless the first is a strike, and
\* get_total_score() never exceeds 300.
C29_ValidPlayBounds ==
    /\ \A i \in 0 .. 8 : Sum(game.frames[i]) <= 10
    /\ (Len(Tenth) >= 2 /\ Tenth[1] # 10) => Tenth[1] + Tenth[2] <= 10
    /\ TotalOrZero(game) <= 300

\* C29 witness: valid play reached the highest total.
C29_Witness == game.is_complete /\ get_total_score(game) = 300

\* Frames a player has completed
CompletedFrames(g) == IF g.is_complete THEN 10 ELSE g.current_frame

\* Rolls a player game has accepted
NumRolls(g) == Len(RollsFrom(g.frames, 0))

\* C24: in a fixed-roster match every player before the cursor has completed
\* exactly one frame more than every player at or after it (all ten once the
\* match is over), and no player starts frame k+1 before every player has
\* completed frame k.
C24_FrameByFrameInJoinOrder ==
    LET n == Len(players) IN
    /\ \A i \in 1 .. n : \A j \in 1 .. n :
          (i <= current_player_index /\ j > current_player_index) =>
              CompletedFrames(players[i]) = CompletedFrames(players[j]) + 1
    /\ is_game_complete(players) =>
          \A i \in 1 .. n : CompletedFrames(players[i]) = 10
    /\ \A i \in 1 .. n : \A j \in 1 .. n : \A k \in 1 .. 9 :
          players[i].frames[k] # <<>> => CompletedFrames(players[j]) >= k

\* C24 witness: in the middle of a round of three players, two have bowled
\* the round's frame and the third has not.
C24_Witness ==
    /\ Len(players) = 3
    /\ current_player_index = 2
    /\ CompletedFrames(players[1]) = 5
    /\ CompletedFrames(players[2]) = 5
    /\ CompletedFrames(players[3]) = 4

\* C25: a player game is complete after at least 11 and at most 21 accepted
\* rolls; in a fixed-roster match of n >= 1 players every record_roll with
\* pins in 0..10 succeeds while the match is not complete, and the match is
\* complete after at most 21*n successful rolls.
C25_MatchTerminates ==
    LET n == Len(players)
        rolls == [k \in 1 .. n |-> NumRolls(players[k])]
    IN  /\ \A k \in 1 .. n :
              /\ rolls[k] <= 21
              /\ players[k].is_complete => rolls[k] >= 11
              /\ rolls[k] = 21 => players[k].is_complete
        /\ (n >= 1 /\ ~is_game_complete(players)) =>
              \A pins \in 0 .. 10 :
                  record_roll(players, current_player_index, pins).raised
                      = "no"
        /\ (n >= 1 /\ ~is_game_complete(players)) =>
              Sum(rolls) < 21 * n

\* C25 witness: a finished match in which one player needed 11 rolls and
\* another 21.
C25_Witness ==
    /\ Len(players) >= 2
    /\ is_game_complete(players)
    /\ outcome.kind = "returned"
    /\ \E i, j \in 1 .. Len(players) :
          NumRolls(players[i]) = 11 /\ NumRolls(players[j]) = 21

\* C22: under every interleaving of pin buttons, Back to menu, new game,
\* rematch and timer callbacks, complete_game calls update_game_score and
\* add_frame only for the players of a GameManager whose player games are
\* all complete, and never twice for the same game.
C22_SavedOnlyCompleteOnce ==
    [][ db_calls' # db_calls =>
          /\ players # <<>>
          /\ is_game_complete(players)
          /\ \A k \in (Len(db_calls) + 1) .. Len(db_calls') :
                \A j \in 1 .. (k - 1) :
                    ~ /\ db_calls'[j].call = db_calls'[k].call
                      /\ db_calls'[j].game_id = db_calls'[k].game_id
                      /\ db_calls'[j].frame_number =
                            db_calls'[k].frame_number ]_vars

\* The step is an accepted roll of the k-th player of the match
RolledBy(k) ==
    /\ Len(players') = Len(players)
    /\ players'[k].game_id = players[k].game_id
    /\ NumRolls(players'[k]) = NumRolls(players[k]) + 1

\* C30: a roll brings the rolling player's consecutive-strike counter to 12
\* if and only if it is the twelfth of twelve consecutive strikes of that
\* player in the current game, which has then no other roll.
C30_CounterTwelveIffPerfect ==
    [][ \A k \in 1 .. Len(players) :
          RolledBy(k) =>
              (CounterGet(player_id_to_consecutive_strikes',
                          players[k].player_id) = 12
               <=> RollsFrom(players'[k].frames, 0) = [j \in 1 .. 12 |-> 10])
      ]_vars

=============================================================================
